---- MODULE Spec2Model ----
(***************************************************************************)
(* CSVExcelModifier (src/app.py): the table transformations of one editor  *)
(* instance, its modification log, and the Streamlit driver main().        *)
(*                                                                         *)
(* A DataFrame is [cols, rows]; a row is [idx, cells] where idx is the     *)
(* pandas index label and cells maps each column to a cell.  A cell is a   *)
(* set: {} is NaN / missing, {v} is the scalar v.  An optional Python      *)
(* argument is modelled the same way: {} is None, {x} is the value x.      *)
(***************************************************************************)
EXTENDS Integers, Sequences, FiniteSets, TLC

VARIABLES
    df,        \* the table the caller holds (df = modifier.op(df))
    log,       \* self.log of the editor instance
    op,        \* name of the last method called ("" before the first call)
    args,      \* arguments of the last call
    inp,       \* table passed to the last call
    log0,      \* self.log when the last call started
    raised,    \* the last call's body raised an exception (caught or not)
    reported,  \* the last call reported an error with st.error
    calls,     \* history: <<method, completed without exception>> per call
    uploaded,  \* main: the table parsed from the uploaded file
    display,   \* main: the log written under "Modification Log" by the last run
    runs       \* main: number of script runs so far

vars == <<df, log, op, args, inp, log0, raised, reported, calls, uploaded, display, runs>>

\* ------------------------------------------------------------------ bounds
MaxRows  == 3   \* rows of an uploaded table
MaxLen   == 2   \* length of a rule list / operation batch
SessRows == 2   \* rows of the uploaded table in a multi-call session
MaxCalls == 2   \* calls on one editor instance in a session
MaxRuns  == 2   \* script runs of main in one browser session

Null == {}

ColNames == {"A", "B"}
ACells == {{1}, {2}}
BCells == {{1}, Null}

\* ------------------------------------------------------------- sequences
Range(s) == {s[i] : i \in DOMAIN s}

SeqsUpTo(S, n) == UNION {[1..k -> S] : k \in 0..n}

IsPrefix(s, t) == Len(s) <= Len(t) /\ \A i \in DOMAIN s : s[i] = t[i]

\* ---------------------------------------------------------------- tables
Frame(cols, rows) == [cols |-> cols, rows |-> rows]

NRows(T) == Len(T.rows)

\* pd.read_csv / pd.read_excel: a fresh RangeIndex 0..n-1
RangeIndexed(cellrows) ==
    [i \in DOMAIN cellrows |-> [idx |-> i - 1, cells |-> cellrows[i]]]

CellRows == {[A |-> a, B |-> b] : a \in ACells, b \in BCells}

Tables(n) == {Frame(ColNames, RangeIndexed(cr)) : cr \in SeqsUpTo(CellRows, n)}

\* the cell sequences of a table, index labels dropped
Values(T) == [i \in DOMAIN T.rows |-> T.rows[i].cells]

Labels(T) == [i \in DOMAIN T.rows |-> T.rows[i].idx]

\* the sub-sequence of s at the positions in I, in order
Pick(s, I) ==
    LET F[i \in 0..Len(s)] ==
            IF i = 0 THEN <<>>
            ELSE IF i \in I THEN Append(F[i - 1], s[i]) ELSE F[i - 1]
    IN  F[Len(s)]

\* ------------------------------------------------------- pandas operations
\* faulty variant of drop_duplicates: keep="last"
drop_duplicates_KeepLast(T) ==
    Frame(T.cols,
          Pick(T.rows, {i \in DOMAIN T.rows :
                            \A j \in (i + 1)..Len(T.rows) :
                                T.rows[j].cells # T.rows[i].cells}))

\* df.drop_duplicates(): keep="first", all columns, NaN equal to NaN
drop_duplicates(T) ==
    Frame(T.cols,
          Pick(T.rows, {i \in DOMAIN T.rows :
                            \A j \in 1..(i - 1) : T.rows[j].cells # T.rows[i].cells}))

\* df.dropna(): how="any"
dropna(T) ==
    Frame(T.cols,
          Pick(T.rows, {i \in DOMAIN T.rows :
                            \A c \in T.cols : T.rows[i].cells[c] # Null}))

\* faulty variant of Compare: greater_than taken as >=
Compare_GreaterOrEqual(cell, condition, value) ==
    CASE condition = "greater_than" -> \E x \in cell : x >= value
      [] condition = "less_than"    -> \E x \in cell : x < value
      [] condition = "equals"       -> \E x \in cell : x = value

\* one element of the boolean mask df[column] <cmp> value; NaN compares False
Compare(cell, condition, value) ==
    CASE condition = "greater_than" -> \E x \in cell : x > value
      [] condition = "less_than"    -> \E x \in cell : x < value
      [] condition = "equals"       -> \E x \in cell : x = value

\* df[df[column] <cmp> value]: boolean-mask selection, labels kept
mask_select(T, column, condition, value) ==
    Frame(T.cols,
          Pick(T.rows, {i \in DOMAIN T.rows :
                            Compare(T.rows[i].cells[column], condition, value)}))

\* faulty variant of concat: ignore_index left out, the new row keeps label 0
concat_KeepIndex(T, row_data) ==
    LET cols == T.cols \cup DOMAIN row_data
        old  == [i \in DOMAIN T.rows |->
                    [idx |-> T.rows[i].idx,
                     cells |-> [c \in cols |-> IF c \in T.cols THEN T.rows[i].cells[c]
                                               ELSE Null]]]
        new  == [c \in cols |-> IF c \in DOMAIN row_data THEN row_data[c] ELSE Null]
    IN  Frame(cols, Append(old, [idx |-> 0, cells |-> new]))

\* pd.concat([df, pd.DataFrame([row_data])], ignore_index=True)
concat(T, row_data) ==
    LET cols == T.cols \cup DOMAIN row_data
        old  == [i \in DOMAIN T.rows |->
                    [c \in cols |-> IF c \in T.cols THEN T.rows[i].cells[c] ELSE Null]]
        new  == [c \in cols |-> IF c \in DOMAIN row_data THEN row_data[c] ELSE Null]
    IN  Frame(cols, RangeIndexed(Append(old, new)))

\* df.drop(label): removes the row whose index LABEL is label
drop(T, label) ==
    Frame(T.cols, Pick(T.rows, {i \in DOMAIN T.rows : T.rows[i].idx # label}))

\* df.drop(label) raises KeyError when no row carries the label
drop_raises(T, label) == label \notin Range(Labels(T))

\* ------------------------------------------------------------ the editor
log_action(self_log, action) == Append(self_log, action)

Entry(action, details) == [action |-> action, details |-> details]

\* what a method hands back: the returned table, self.log afterwards, whether
\* the body raised, whether st.error was called
Result(ret, self_log, exc, err) ==
    [ret |-> ret, log |-> self_log, raised |-> exc, reported |-> err]

remove_duplicates(self_log, T) ==
    LET initial_count == NRows(T)
        df_cleaned    == drop_duplicates(T)
        final_count   == NRows(df_cleaned)
    IN  Result(df_cleaned,
               log_action(self_log,
                          Entry("remove_duplicates",
                                [removed |-> initial_count - final_count])),
               FALSE, FALSE)

Conditions == {"greater_than", "less_than", "equals"}

\* the for loop of apply_rules: the local df when the loop ends or raises
RECURSIVE rules_loop(_, _)
rules_loop(d, rules) ==
    IF rules = <<>> THEN [df |-> d, raised |-> FALSE]
    ELSE LET rule == Head(rules) IN
         IF rule.condition \notin Conditions THEN rules_loop(d, Tail(rules))
         ELSE IF rule.column \notin d.cols THEN [df |-> d, raised |-> TRUE]
         ELSE rules_loop(mask_select(d, rule.column, rule.condition, rule.value),
                         Tail(rules))

\* faulty variant of apply_rules: the log entry written in the except path too
apply_rules_LogAlways(self_log, T, rules) ==
    LET r == rules_loop(T, rules) IN
    Result(r.df,
           log_action(self_log,
                      Entry("apply_rules", [rules |-> rules, remaining |-> NRows(r.df)])),
           r.raised, r.raised)

apply_rules(self_log, T, rules) ==
    LET r == rules_loop(T, rules) IN
    IF ~r.raised
    THEN Result(r.df,
                log_action(self_log,
                           Entry("apply_rules",
                                 [rules |-> rules, remaining |-> NRows(r.df)])),
                FALSE, FALSE)
    ELSE Result(r.df, self_log, TRUE, TRUE)

\* the for loop of add_or_delete_rows
RECURSIVE operations_loop(_, _)
operations_loop(d, operations) ==
    IF operations = <<>> THEN [df |-> d, raised |-> FALSE]
    ELSE LET operation == Head(operations) IN
         IF operation.action = {} THEN [df |-> d, raised |-> TRUE]
         ELSE IF operation.action = {"add"}
              THEN operations_loop(concat(d, operation.row_data), Tail(operations))
         ELSE IF operation.action = {"delete"}
                 /\ \E i \in operation.index : 0 <= i /\ i < NRows(d)
              THEN LET index_to_delete == CHOOSE i \in operation.index : TRUE IN
                   IF drop_raises(d, index_to_delete)
                   THEN [df |-> d, raised |-> TRUE]
                   ELSE operations_loop(drop(d, index_to_delete), Tail(operations))
         ELSE operations_loop(d, Tail(operations))

add_or_delete_rows(self_log, T, operations) ==
    LET r == operations_loop(T, operations) IN
    IF ~r.raised
    THEN Result(r.df,
                log_action(self_log,
                           Entry("add_or_delete_rows",
                                 [operations |-> operations, final |-> NRows(r.df)])),
                FALSE, FALSE)
    ELSE Result(r.df, self_log, TRUE, TRUE)

remove_empty_rows(self_log, T) ==
    LET initial_count == NRows(T)
        df_cleaned    == dropna(T)
        final_count   == NRows(df_cleaned)
    IN  Result(df_cleaned,
               log_action(self_log,
                          Entry("remove_empty_rows",
                                [removed |-> initial_count - final_count])),
               FALSE, FALSE)

\* row r may stand before row q in df.sort_values(by=column, ascending=...):
\* na_position="last" whatever the direction
InOrder(r, q, column, ascending) ==
    LET x == r.cells[column]
        y == q.cells[column]
    IN  \/ y = Null
        \/ /\ x # Null
           /\ \A a \in x, b \in y : IF ascending THEN a <= b ELSE a >= b

\* the orderings of the rows S in which every row is InOrder with all later ones
RECURSIVE Orderings(_, _, _)
Orderings(S, column, ascending) ==
    IF S = {} THEN {<<>>}
    ELSE UNION {{<<r>> \o p : p \in Orderings(S \ {r}, column, ascending)} :
                   r \in {m \in S : \A q \in S : InOrder(m, q, column, ascending)}}

\* df.sort_values(by=column, ascending=ascending), default kind="quicksort":
\* the order among equal keys is not promised, so every ordering is an outcome
sort_values(T, column, ascending) ==
    {Frame(T.cols, p) : p \in Orderings(Range(T.rows), column, ascending)}

\* the set of outcomes of sort_data
sort_data(self_log, T, column, ascending) ==
    IF column \notin T.cols
    THEN {Result(T, self_log, TRUE, TRUE)}
    ELSE {Result(df_sorted,
                 log_action(self_log,
                            Entry("sort_data",
                                  [column |-> column,
                                   order |-> IF ascending THEN "ascending"
                                             ELSE "descending"])),
                 FALSE, FALSE) : df_sorted \in sort_values(T, column, ascending)}

NewName(mapping, c) == IF c \in DOMAIN mapping THEN mapping[c] ELSE c

\* df.rename(columns=mapping) for a dict mapping
rename(T, mapping) ==
    LET cols == {NewName(mapping, c) : c \in T.cols}
        Old(n) == CHOOSE c \in T.cols : NewName(mapping, c) = n
    IN  Frame(cols,
              [i \in DOMAIN T.rows |->
                  [idx |-> T.rows[i].idx,
                   cells |-> [n \in cols |-> T.rows[i].cells[Old(n)]]]])

\* the renamed columns stay distinct (pandas would otherwise build a frame with
\* two columns of one name, which Frame cannot hold)
NoCollision(T, column_mapping) ==
    column_mapping.kind = "dict" =>
        \A c, e \in T.cols :
            NewName(column_mapping.map, c) = NewName(column_mapping.map, e) => c = e

\* column_mapping is whatever json.loads gave: a dict, or something df.rename
\* cannot use as a mapper (a list, a number, null) and raises TypeError on
rename_columns(self_log, T, column_mapping) ==
    IF column_mapping.kind = "dict"
    THEN Result(rename(T, column_mapping.map),
                log_action(self_log,
                           Entry("rename_columns", [mapping |-> column_mapping])),
                FALSE, FALSE)
    ELSE Result(T, self_log, TRUE, TRUE)

\* df.fillna(method="ffill"): the nearest preceding non-null of the column
ffill(T) ==
    LET Src(i, c) == {j \in 1..i : T.rows[j].cells[c] # Null}
        Max(S) == CHOOSE m \in S : \A k \in S : k <= m
    IN  Frame(T.cols,
              [i \in DOMAIN T.rows |->
                  [idx |-> T.rows[i].idx,
                   cells |-> [c \in T.cols |->
                                 IF Src(i, c) = {} THEN Null
                                 ELSE T.rows[Max(Src(i, c))].cells[c]]]])

\* df.fillna(method="bfill"): the nearest following non-null of the column
bfill(T) ==
    LET Src(i, c) == {j \in i..Len(T.rows) : T.rows[j].cells[c] # Null}
        Min(S) == CHOOSE m \in S : \A k \in S : m <= k
    IN  Frame(T.cols,
              [i \in DOMAIN T.rows |->
                  [idx |-> T.rows[i].idx,
                   cells |-> [c \in T.cols |->
                                 IF Src(i, c) = {} THEN Null
                                 ELSE T.rows[Min(Src(i, c))].cells[c]]]])

\* df.fillna(value) for a scalar value
fillna(T, v) ==
    Frame(T.cols,
          [i \in DOMAIN T.rows |->
              [idx |-> T.rows[i].idx,
               cells |-> [c \in T.cols |->
                             IF T.rows[i].cells[c] = Null THEN {v}
                             ELSE T.rows[i].cells[c]]]])

\* faulty variant of fill_missing_values: the no-op branch returns before logging
fill_missing_values_SilentNoop(self_log, T, method, value) ==
    LET logged == log_action(self_log,
                             Entry("fill_missing_values", [method |-> method]))
    IN  IF method = "ffill" THEN Result(ffill(T), logged, FALSE, FALSE)
        ELSE IF method = "bfill" THEN Result(bfill(T), logged, FALSE, FALSE)
        ELSE IF method = "value" /\ value.kind # "None"
             THEN IF value.kind = "scalar"
                  THEN Result(fillna(T, value.v), logged, FALSE, FALSE)
                  ELSE Result(T, self_log, TRUE, TRUE)
        ELSE Result(T, self_log, FALSE, FALSE)

\* value is None ([kind |-> "None"]), a scalar, or a list, which df.fillna
\* refuses with TypeError
fill_missing_values(self_log, T, method, value) ==
    LET logged == log_action(self_log,
                             Entry("fill_missing_values", [method |-> method]))
    IN  IF method = "ffill" THEN Result(ffill(T), logged, FALSE, FALSE)
        ELSE IF method = "bfill" THEN Result(bfill(T), logged, FALSE, FALSE)
        ELSE IF method = "value" /\ value.kind # "None"
             THEN IF value.kind = "scalar"
                  THEN Result(fillna(T, value.v), logged, FALSE, FALSE)
                  ELSE Result(T, self_log, TRUE, TRUE)
        ELSE Result(T, logged, FALSE, FALSE)

\* the columns create_chart reads with df[...] in the branch it takes
ChartColumns(chart_type, x_column, y_column) ==
    IF chart_type = "Bar Chart" THEN {x_column} \cup y_column
    ELSE IF chart_type = "Line Chart" /\ y_column # {} THEN {x_column} \cup y_column
    ELSE IF chart_type = "Pie Chart" THEN {x_column}
    ELSE {}

\* the final else branch: st.error, nothing drawn
ChartInvalid(chart_type, y_column) ==
    /\ chart_type # "Bar Chart"
    /\ ~(chart_type = "Line Chart" /\ y_column # {})
    /\ chart_type # "Pie Chart"

\* faulty variant of create_chart: the invalid branch returns before logging
create_chart_ReturnOnInvalid(self_log, T, chart_type, x_column, y_column, plot_raises) ==
    IF plot_raises \/ ~(ChartColumns(chart_type, x_column, y_column) \subseteq T.cols)
    THEN Result(T, self_log, TRUE, TRUE)
    ELSE IF ChartInvalid(chart_type, y_column)
    THEN Result(T, self_log, FALSE, TRUE)
    ELSE Result(T,
                log_action(self_log,
                           Entry("create_chart",
                                 [chart_type |-> chart_type, x_column |-> x_column,
                                  y_column |-> y_column])),
                FALSE, FALSE)

\* plot_raises: the plotting library (plt.figure, plt.bar, ..., st.pyplot)
\* raised; a df[...] of an absent column raises KeyError by itself
create_chart(self_log, T, chart_type, x_column, y_column, plot_raises) ==
    IF plot_raises \/ ~(ChartColumns(chart_type, x_column, y_column) \subseteq T.cols)
    THEN Result(T, self_log, TRUE, TRUE)
    ELSE Result(T,
                log_action(self_log,
                           Entry("create_chart",
                                 [chart_type |-> chart_type, x_column |-> x_column,
                                  y_column |-> y_column])),
                FALSE, ChartInvalid(chart_type, y_column))

save_log(self_log) == self_log

\* ------------------------------------------------------ argument universes
Rule(column, condition, value) ==
    [column |-> column, condition |-> condition, value |-> value]

\* "C" is a column no uploaded table has; "contains" is no known condition
RuleSet ==
    {Rule("A", "greater_than", 1), Rule("A", "less_than", 2), Rule("A", "equals", 1),
     Rule("B", "equals", 1), Rule("C", "greater_than", 1), Rule("C", "contains", 1)}

RuleLists == SeqsUpTo(RuleSet, MaxLen)

Add(row_data) == [action |-> {"add"}, row_data |-> row_data]

Delete(index) == [action |-> {"delete"}, index |-> index]

\* [action |-> {}] is an operation without the "action" key
OperationSet ==
    {Add([A |-> {2}]), Add([A |-> {1}, B |-> {1}]),
     Delete({0}), Delete({1}), Delete({}),
     [action |-> {"update"}], [action |-> {}]}

OperationLists == SeqsUpTo(OperationSet, MaxLen)

SortColumns == {"A", "B", "C"}

Dict(mapping) == [kind |-> "dict", map |-> mapping]

ColumnMappings == {Dict([A |-> "C"]), Dict([C |-> "D"]), Dict([A |-> "B"]), [kind |-> "list"]}

FillMethods == {"ffill", "bfill", "value", "mean"}

FillValues == {[kind |-> "None"], [kind |-> "scalar", v |-> 2], [kind |-> "list"]}

ChartTypes == {"Bar Chart", "Line Chart", "Pie Chart", "Scatter"}

XColumns == {"A", "C"}

YColumns == {{}, {"B"}}

\* the narrower choices of a multi-call session
SessRuleLists == {<<Rule("A", "greater_than", 1)>>, <<Rule("C", "greater_than", 1)>>}

SessOperationLists == {<<Add([A |-> {2}])>>, <<Delete({0})>>, <<[action |-> {}]>>}

SessSorts == {<<"A", TRUE>>, <<"B", FALSE>>, <<"C", TRUE>>}

SessMappings == {Dict([A |-> "C"]), [kind |-> "list"]}

SessFills == {<<"ffill", [kind |-> "None"]>>, <<"value", [kind |-> "None"]>>,
              <<"value", [kind |-> "list"]>>}

SessCharts == {<<"Bar Chart", "A", {}>>, <<"Line Chart", "A", {}>>, <<"Pie Chart", "C", {}>>}

\* ----------------------------------------------------------------- actions
NoArgs == <<>>

\* df = modifier.<name>(df, ...): the caller keeps what the method returns
Call(name, a, r) ==
    /\ df' = r.ret
    /\ log' = r.log
    /\ op' = name
    /\ args' = a
    /\ inp' = df
    /\ log0' = log
    /\ raised' = r.raised
    /\ reported' = r.reported
    /\ calls' = Append(calls, <<name, ~r.raised>>)
    /\ UNCHANGED <<uploaded, display, runs>>

\* the instance has calls left
CanCall(limit) == Len(calls) < limit

RemoveDuplicates(limit) ==
    /\ CanCall(limit)
    /\ Call("remove_duplicates", NoArgs, remove_duplicates(log, df))

ApplyRules(limit, lists) ==
    /\ CanCall(limit)
    /\ \E rules \in lists :
           Call("apply_rules", [rules |-> rules], apply_rules(log, df, rules))

AddOrDeleteRows(limit, lists) ==
    /\ CanCall(limit)
    /\ \E operations \in lists :
           Call("add_or_delete_rows", [operations |-> operations],
                add_or_delete_rows(log, df, operations))

RemoveEmptyRows(limit) ==
    /\ CanCall(limit)
    /\ Call("remove_empty_rows", NoArgs, remove_empty_rows(log, df))

SortData(limit, sorts) ==
    /\ CanCall(limit)
    /\ \E s \in sorts : \E r \in sort_data(log, df, s[1], s[2]) :
           Call("sort_data", [column |-> s[1], ascending |-> s[2]], r)

RenameColumns(limit, mappings) ==
    /\ CanCall(limit)
    /\ \E column_mapping \in mappings :
           /\ NoCollision(df, column_mapping)
           /\ Call("rename_columns", [column_mapping |-> column_mapping],
                   rename_columns(log, df, column_mapping))

FillMissingValues(limit, fills) ==
    /\ CanCall(limit)
    /\ \E f \in fills :
           Call("fill_missing_values", [method |-> f[1], value |-> f[2]],
                fill_missing_values(log, df, f[1], f[2]))

CreateChart(limit, charts) ==
    /\ CanCall(limit)
    /\ \E c \in charts, plot_raises \in BOOLEAN :
           Call("create_chart",
                [chart_type |-> c[1], x_column |-> c[2], y_column |-> c[3],
                 plot_raises |-> plot_raises],
                create_chart(log, df, c[1], c[2], c[3], plot_raises))

\* CSVExcelModifier(): an empty log; the table is one read from a file
InitWith(tables) ==
    /\ df \in tables
    /\ log = <<>>
    /\ op = ""
    /\ args = NoArgs
    /\ inp = df
    /\ log0 = <<>>
    /\ raised = FALSE
    /\ reported = FALSE
    /\ calls = <<>>
    /\ uploaded = df
    /\ display = <<>>
    /\ runs = 0

Init == InitWith(Tables(MaxRows))

\* one call of one method on a fresh editor instance, any arguments
Next ==
    \/ RemoveDuplicates(1)
    \/ ApplyRules(1, RuleLists)
    \/ AddOrDeleteRows(1, OperationLists)
    \/ RemoveEmptyRows(1)
    \/ SortData(1, SortColumns \X BOOLEAN)
    \/ RenameColumns(1, ColumnMappings)
    \/ FillMissingValues(1, FillMethods \X FillValues)
    \/ CreateChart(1, ChartTypes \X XColumns \X YColumns)

Spec == Init /\ [][Next]_vars

SessionInit == InitWith(Tables(SessRows))

\* up to MaxCalls calls on one editor instance, each on the table the last returned
SessionNext ==
    \/ RemoveDuplicates(MaxCalls)
    \/ ApplyRules(MaxCalls, SessRuleLists)
    \/ AddOrDeleteRows(MaxCalls, SessOperationLists)
    \/ RemoveEmptyRows(MaxCalls)
    \/ SortData(MaxCalls, SessSorts)
    \/ RenameColumns(MaxCalls, SessMappings)
    \/ FillMissingValues(MaxCalls, SessFills)
    \/ CreateChart(MaxCalls, SessCharts)

SessionSpec == SessionInit /\ [][SessionNext]_vars

\* -------------------------------------------------------------------- main
\* the lines of one script run after the operation branch: the new instance's
\* log, the table and the displayed "Modification Log"
Run(name, a, r) ==
    /\ df' = r.ret
    /\ log' = r.log
    /\ op' = name
    /\ args' = a
    /\ inp' = uploaded
    /\ log0' = <<>>
    /\ raised' = r.raised
    /\ reported' = r.reported
    /\ calls' = IF name = "" THEN <<>> ELSE <<<<name, ~r.raised>>>>
    /\ display' = save_log(r.log)
    /\ runs' = runs + 1
    /\ UNCHANGED uploaded

\* One run of main(): modifier = CSVExcelModifier() and df = pd.read_csv(...)
\* anew, then at most one branch of the if/elif chain on the selected
\* operation, then st.write("### Modification Log:", modifier.save_log()).
\* The last disjunct is a run whose button was not pressed or whose JSON text
\* json.loads refused: no method is called.
main ==
    /\ runs < MaxRuns
    /\ \/ Run("remove_duplicates", NoArgs, remove_duplicates(<<>>, uploaded))
       \/ \E rules \in SessRuleLists :
              Run("apply_rules", [rules |-> rules], apply_rules(<<>>, uploaded, rules))
       \/ \E operations \in SessOperationLists :
              Run("add_or_delete_rows", [operations |-> operations],
                  add_or_delete_rows(<<>>, uploaded, operations))
       \/ Run("remove_empty_rows", NoArgs, remove_empty_rows(<<>>, uploaded))
       \/ \E s \in SessSorts : \E r \in sort_data(<<>>, uploaded, s[1], s[2]) :
              Run("sort_data", [column |-> s[1], ascending |-> s[2]], r)
       \/ \E column_mapping \in SessMappings :
              /\ NoCollision(uploaded, column_mapping)
              /\ Run("rename_columns", [column_mapping |-> column_mapping],
                     rename_columns(<<>>, uploaded, column_mapping))
       \/ \E f \in SessFills :
              /\ f[2].kind # "list"
              /\ Run("fill_missing_values", [method |-> f[1], value |-> f[2]],
                     fill_missing_values(<<>>, uploaded, f[1], f[2]))
       \/ \E c \in SessCharts, plot_raises \in BOOLEAN :
              /\ c[2] \in uploaded.cols
              /\ Run("create_chart",
                     [chart_type |-> c[1], x_column |-> c[2], y_column |-> c[3],
                      plot_raises |-> plot_raises],
                     create_chart(<<>>, uploaded, c[1], c[2], c[3], plot_raises))
       \/ \E err \in BOOLEAN : Run("", NoArgs, Result(uploaded, <<>>, err, err))

MainInit == InitWith(Tables(SessRows))

MainNext == main

MainSpec == MainInit /\ [][MainNext]_vars

\* ------------------------------------------------------------- properties
Transformations ==
    {"remove_duplicates", "apply_rules", "add_or_delete_rows", "remove_empty_rows",
     "sort_data", "rename_columns", "fill_missing_values"}

LastEntry == log[Len(log)]

\* C1: when a rule of the list raises, apply_rules returns a table equal to
\* its input: nothing the earlier rules filtered out stays filtered out.
C1_RulesRollBack ==
    (op = "apply_rules" /\ raised) => df = inp

\* C2: when an operation of the batch raises, add_or_delete_rows returns a
\* table equal to its input: the earlier adds and deletes are discarded.
C2_BatchRollsBack ==
    (op = "add_or_delete_rows" /\ raised) => df = inp

\* s without its element at position i (1-based)
RemoveAt(s, i) == [k \in 1..(Len(s) - 1) |-> IF k < i THEN s[k] ELSE s[k + 1]]

\* the cells a batch of adds and deletes leaves when every delete removes the
\* row at POSITION index of the current table, or nothing when out of range
RECURSIVE Positional(_, _, _)
Positional(cols, cellrows, operations) ==
    IF operations = <<>> THEN cellrows
    ELSE LET operation == Head(operations) IN
         IF operation.action = {"add"}
         THEN Positional(cols,
                         Append(cellrows,
                                [c \in cols |-> IF c \in DOMAIN operation.row_data
                                                THEN operation.row_data[c] ELSE Null]),
                         Tail(operations))
         ELSE IF operation.action = {"delete"}
                 /\ \E i \in operation.index : 0 <= i /\ i < Len(cellrows)
              THEN Positional(cols,
                              RemoveAt(cellrows, 1 + CHOOSE i \in operation.index : TRUE),
                              Tail(operations))
         ELSE Positional(cols, cellrows, Tail(operations))

\* C3: every delete of a batch removes exactly the row at position index of
\* the current table when 0 <= index < len, and otherwise nothing, without an
\* error, whatever deletes came before it in the batch.
C3_DeleteByPosition ==
    (/\ op = "add_or_delete_rows"
     /\ \A k \in DOMAIN args.operations :
            args.operations[k].action \in {{"add"}, {"delete"}})
    => /\ ~raised
       /\ Values(df) = Positional(inp.cols, Values(inp), args.operations)

\* the names of the log entries / of the completed calls that are transformations
LoggedTransformations ==
    LET a == [i \in DOMAIN log |-> log[i].action]
    IN  Pick(a, {i \in DOMAIN a : a[i] \in Transformations})

CompletedTransformations ==
    LET n == [i \in DOMAIN calls |-> calls[i][1]]
    IN  Pick(n, {i \in DOMAIN calls : calls[i][2] /\ calls[i][1] \in Transformations})

\* C4: a transformation call that completes appends exactly one entry, its
\* own, to the log; one whose body raises leaves the log as it was; so the
\* log holds one entry per completed call, in call order.
C4_OneEntryPerCompletedCall ==
    /\ op \in Transformations =>
          IF raised THEN log = log0
          ELSE /\ Len(log) = Len(log0) + 1
               /\ SubSeq(log, 1, Len(log0)) = log0
               /\ LastEntry.action = op
    /\ LoggedTransformations = CompletedTransformations

C4_Witness ==
    /\ Len(calls) = 2
    /\ calls[1] = <<"apply_rules", FALSE>>
    /\ calls[2] = <<"sort_data", TRUE>>
    /\ Len(log) = 1

\* C5: over the runs of main in one session the displayed log only grows:
\* what one run displays is a prefix of what the next run displays.
C5_DisplayedLogOnlyGrows ==
    [][IsPrefix(display, display')]_vars

ChartEntry ==
    Entry("create_chart",
          [chart_type |-> args.chart_type, x_column |-> args.x_column,
           y_column |-> args.y_column])

\* C6 as stated: create_chart appends its entry whether or not the chart was
\* rendered, also when drawing fails.
C6_ChartAlwaysLogged ==
    op = "create_chart" => log = Append(log0, ChartEntry)

\* C6 amended: create_chart appends its entry when the chart is drawn and
\* when the chart type is unknown or a Line Chart has no y_column (error
\* reported, no exception); when drawing raises an exception it appends none.
C6_ChartLoggedUnlessRaised ==
    op = "create_chart" =>
        /\ raised <=> (args.plot_raises
                       \/ ~(ChartColumns(args.chart_type, args.x_column, args.y_column)
                             \subseteq inp.cols))
        /\ IF raised THEN log = log0 ELSE log = Append(log0, ChartEntry)
        /\ (~raised /\ ChartInvalid(args.chart_type, args.y_column)) => reported

C6_Witness ==
    /\ op = "create_chart"
    /\ args.chart_type = "Line Chart"
    /\ args.y_column = {}
    /\ reported
    /\ ~raised
    /\ log = <<ChartEntry>>

\* a row's cells satisfy a rule: its column's value is not missing and
\* stands in the rule's relation to the rule's value
Satisfies(cells, rule) ==
    /\ rule.column \in DOMAIN cells
    /\ cells[rule.column] # Null
    /\ LET x == CHOOSE v \in cells[rule.column] : TRUE IN
       \/ rule.condition = "greater_than" /\ x > rule.value
       \/ rule.condition = "less_than" /\ x < rule.value
       \/ rule.condition = "equals" /\ x = rule.value

\* C7: when no rule raises, apply_rules returns exactly the rows of its input
\* that satisfy every rule (> for greater_than, < for less_than, == for
\* equals), in the input's order.
C7_ConjunctiveFilter ==
    (/\ op = "apply_rules"
     /\ ~raised
     /\ \A k \in DOMAIN args.rules : args.rules[k].condition \in Conditions)
    => df = Frame(inp.cols,
                  Pick(inp.rows,
                       {i \in DOMAIN inp.rows :
                            \A k \in DOMAIN args.rules :
                                Satisfies(inp.rows[i].cells, args.rules[k])}))

C7_Witness ==
    /\ op = "apply_rules"
    /\ ~raised
    /\ Len(args.rules) = 2
    /\ args.rules[1].condition = "greater_than"
    /\ args.rules[2].condition = "equals"
    /\ NRows(df) = 1
    /\ NRows(inp) = 3

\* C8: fill_missing_values with method "value" and no value, or with a
\* method other than ffill, bfill and value, returns its input unchanged,
\* reports no error, and appends its one log entry naming the method.
C8_FillNoOp ==
    (/\ op = "fill_missing_values"
     /\ \/ args.method = "value" /\ args.value.kind = "None"
        \/ args.method \notin {"ffill", "bfill", "value"})
    => /\ df = inp
       /\ ~raised
       /\ ~reported
       /\ log = Append(log0, Entry("fill_missing_values", [method |-> args.method]))

C8_Witness ==
    /\ op = "fill_missing_values"
    /\ args.method = "value"
    /\ args.value.kind = "None"
    /\ \E i \in DOMAIN inp.rows : inp.rows[i].cells["B"] = Null
    /\ Len(log) = 1

\* the position in the input of a row of the result (index labels are unique)
Position(r) == CHOOSE i \in DOMAIN inp.rows : inp.rows[i] = r

\* C9: remove_duplicates keeps of each group of equal rows the first
\* occurrence only, in the input's order; applying it to its own result
\* changes nothing and logs 0; the logged count is rows in minus rows out.
C9_FirstOccurrences ==
    op = "remove_duplicates" =>
        /\ \A k \in DOMAIN df.rows : df.rows[k] \in Range(inp.rows)
        /\ \A k, m \in DOMAIN df.rows :
               k < m => /\ Position(df.rows[k]) < Position(df.rows[m])
                        /\ df.rows[k].cells # df.rows[m].cells
        /\ \A i \in DOMAIN inp.rows :
               \E k \in DOMAIN df.rows :
                   /\ df.rows[k].cells = inp.rows[i].cells
                   /\ Position(df.rows[k]) <= i
        /\ LastEntry = Entry("remove_duplicates",
                             [removed |-> NRows(inp) - NRows(df)])
        /\ LET again == remove_duplicates(log, df) IN
           /\ again.ret = df
           /\ again.log = Append(log, Entry("remove_duplicates", [removed |-> 0]))

C9_Witness ==
    /\ op = "remove_duplicates"
    /\ NRows(inp) = 3
    /\ NRows(df) = 2
    /\ inp.rows[1].cells = inp.rows[3].cells
    /\ LastEntry.details.removed = 1

\* row_data as a full row: the columns it does not name are null
Padded(cols, row_data) ==
    [c \in cols |-> IF c \in DOMAIN row_data THEN row_data[c] ELSE Null]

\* C10: the operations run in list order on the table as modified so far; an
\* add appends one row at the end, null where row_data names no column; an
\* empty batch returns the input; [add n, delete 0] on [r0, r1] gives [r1, n].
C10_AddsAppendInOrder ==
    op = "add_or_delete_rows" =>
        LET operations == args.operations IN
        /\ operations = <<>> => (df = inp /\ ~raised)
        /\ (\A k \in DOMAIN operations : operations[k].action = {"add"}) =>
               /\ ~raised
               /\ NRows(df) = NRows(inp) + Len(operations)
               /\ \A i \in DOMAIN inp.rows : df.rows[i].cells = inp.rows[i].cells
               /\ \A k \in DOMAIN operations :
                      df.rows[NRows(inp) + k].cells
                          = Padded(inp.cols, operations[k].row_data)
        /\ (/\ NRows(inp) = 2
            /\ Len(operations) = 2
            /\ operations[1].action = {"add"}
            /\ operations[2] = Delete({0}))
           => /\ ~raised
              /\ Values(df) = <<inp.rows[2].cells,
                                Padded(inp.cols, operations[1].row_data)>>

C10_Witness ==
    /\ op = "add_or_delete_rows"
    /\ NRows(inp) = 2
    /\ args.operations = <<Add([A |-> {2}]), Delete({0})>>
    /\ ~raised
    /\ Values(df) = <<inp.rows[2].cells, [A |-> {2}, B |-> Null]>>
====
